---- MODULE Spec2Model ----
(***************************************************************************)
(* Model of the SentinelX uninstaller (sentinelx_uninstall.py).            *)
(*                                                                         *)
(* The filesystem is a function from a fixed set of nodes to an entry      *)
(* kind: "none" (absent), "file", "dir", or a symbolic link written        *)
(* "->T" where T is the node the link points to.  The node "W" is the      *)
(* current working directory, "cfg" is ~/.sentinelx when that is not the   *)
(* working directory itself, "sentinelX" and "sentinelx_bin" are the two   *)
(* launcher candidates under ~/.local/bin, "outside" is a directory that   *)
(* lies outside both, and "missing" is a path that never exists (the       *)
(* target of a dangling link).  Every other node is an entry of W, except  *)
(* "tools.yaml" which stands for W/sentinelx/config/tools.yaml.            *)
(***************************************************************************)
EXTENDS Integers, Sequences, FiniteSets, TLC

VARIABLES
    fs,           \* the filesystem
    pkg,          \* the package manager has sentinelx installed
    cwdIsConfig,  \* the working directory is ~/.sentinelx itself
    yes,          \* args.yes
    pc,           \* where the process is
    run,          \* number of the current run of the program
    exit,         \* exit status of the current run, Running until it ends
    answer,       \* what the operator typed at the prompt of line 130
    asked,        \* confirmations requested from the operator in this run
    calls,        \* the steps main has invoked in this run, in order
    out,          \* what the last step printed
    ret,          \* what the last function called returned
    cmd,          \* the uninstall command line handed to the package manager
    failed,       \* a removal or a package-manager call of this run failed
    prevRun,      \* how the previous run went (see Rerun)
    fsStart,      \* the filesystem when the current run started
    pkgStart,     \* pkg when the current run started
    arg,          \* argument of a direct call of remove_directory
    ncalls,       \* direct calls of remove_directory made so far
    env,          \* what the environment answered to the last step
    written,      \* the report files under reports/, with their line counts
    clock         \* the wall clock, in seconds

vars == <<fs, pkg, cwdIsConfig, yes, pc, run, exit, answer, asked, calls,
          out, ret, cmd, failed, prevRun, fsStart, pkgStart, arg, ncalls,
          env, written, clock>>

-----------------------------------------------------------------------------
(* Bounds of the model *)

MaxRuns == 2

MaxPresent == 2

MaxArtifacts == 3

MaxCalls == 2

MaxClock == 3

MaxRecords == 2

-----------------------------------------------------------------------------
(* Fixed lists of the program *)

markers == <<"setup.py", "tools.yaml">>

targets == <<"logs", "reports", "sentinelx", "sentinelx.egg-info", "build",
             "dist", "__pycache__", "assets">>

files == <<"setup.py", "requirements.txt", "sentinelx_uninstall.py",
           "README.md", "sentinelx.py">>

Self == "sentinelx_uninstall.py"

symlink_path == "sentinelX"

old_symlink == "sentinelx_bin"

Range(s) == {s[i] : i \in 1..Len(s)}

-----------------------------------------------------------------------------
(* Filesystem *)

WorkEntries == Range(targets) \cup Range(files) \cup {"unrelated_data", "tools.yaml"}

TopNodes == {"W", "cfg", "outside", "missing", symlink_path, old_symlink}

Nodes == TopNodes \cup WorkEntries

Links == {"->W", "->outside", "->missing"}

Kinds == {"none", "file", "dir"} \cup Links

IsLink(k) == k \in Links

LinkTarget(k) ==
    CASE k = "->W" -> "W"
      [] k = "->outside" -> "outside"
      [] OTHER -> "missing"

Parent(n) ==
    IF n = "tools.yaml" THEN "sentinelx"
    ELSE IF n \in WorkEntries THEN "W"
    ELSE "/"

Children(n) == {m \in Nodes : Parent(m) = n}

DescendantsOf ==
    [n \in Nodes |-> Children(n) \cup UNION {Children(m) : m \in Children(n)}]

Descendants(n) == DescendantsOf[n]

\* Path.resolve(): follows a symbolic link to the node it names
Resolve(f, n) == IF IsLink(f[n]) THEN LinkTarget(f[n]) ELSE n

\* Path.exists(): follows symbolic links; a dangling link does not exist
Exists(f, n) == f[Resolve(f, n)] \in {"file", "dir"}

\* Path.is_dir(): follows symbolic links
IsDir(f, n) == f[Resolve(f, n)] = "dir"

\* Path.is_symlink()
IsSymlink(f, n) == IsLink(f[n])

\* the working directory is still there (os.getcwd() succeeds)
CwdExists(f) == f["W"] = "dir"

\* ~/.sentinelx is the node "cfg", or the working directory itself
ConfigNode(inCfg) == IF inCfg THEN "W" ELSE "cfg"

\* shutil.rmtree(n) that succeeds: n and everything below it is gone;
\* links below n are unlinked, never followed
RmTree(f, n) ==
    [m \in Nodes |-> IF m = n \/ m \in Descendants(n) THEN "none" ELSE f[m]]

\* shutil.rmtree(n) that fails on the last rmdir: the content is gone, n stays
RmTreePartial(f, n) ==
    [m \in Nodes |-> IF m \in Descendants(n) THEN "none" ELSE f[m]]

\* outcome the environment gives to a removal attempt
Outcomes == {"ok", "fail", "partial"}

OutcomeOf(o, n) == IF n \in DOMAIN o THEN o[n] ELSE "ok"

Notice(kind, n) == [kind |-> kind, node |-> n]

-----------------------------------------------------------------------------
(* Primitives: each returns the new filesystem, what it printed, whether a  *)
(* removal attempt failed, and (where the code has one) its return value.   *)

Result(f, r, o, x) == [fs |-> f, ret |-> r, out |-> o, failed |-> x]

\* os.remove(n): unlinks a file or a link (never follows it); raises on a
\* directory, on a missing path, or when the environment refuses
os_remove(f, n, oc) ==
    IF f[n] \in {"file"} \cup Links /\ oc = "ok"
    THEN Result([f EXCEPT ![n] = "none"], TRUE, <<>>, FALSE)
    ELSE Result(f, FALSE, <<>>, TRUE)

\* a remover that deletes whatever exists at the path, file or directory
remove_directory_any(f, path, oc) ==
    LET p == Resolve(f, path) IN
    IF Exists(f, p) /\ oc = "ok"
    THEN Result(RmTree(f, p), TRUE, <<Notice("removed_dir", p)>>, FALSE)
    ELSE Result(f, FALSE, <<>>, FALSE)

\* a remover that reports success whenever it found a directory
remove_directory_true(f, path, oc) ==
    LET p == Resolve(f, path) IN
    IF Exists(f, p) /\ IsDir(f, p)
    THEN CASE oc = "ok" ->
                Result(RmTree(f, p), TRUE, <<Notice("removed_dir", p)>>, FALSE)
           [] OTHER ->
                Result(f, TRUE, <<Notice("failed_dir", p)>>, TRUE)
    ELSE Result(f, FALSE, <<>>, FALSE)

remove_directory(f, path, oc) ==
    LET p == Resolve(f, path) IN
    IF Exists(f, p) /\ IsDir(f, p)
    THEN CASE oc = "ok" ->
                Result(RmTree(f, p), TRUE, <<Notice("removed_dir", p)>>, FALSE)
           [] oc = "partial" ->
                Result(RmTreePartial(f, p), FALSE, <<Notice("failed_dir", p)>>, TRUE)
           [] OTHER ->
                Result(f, FALSE, <<Notice("failed_dir", p)>>, TRUE)
    ELSE Result(f, FALSE, <<>>, FALSE)

\* one candidate of remove_symlinks; a failure prints only when loud
RemoveCandidate(acc, n, oc, okKind, loud) ==
    IF Exists(acc.fs, n) \/ IsSymlink(acc.fs, n)
    THEN LET r == os_remove(acc.fs, n, oc) IN
         IF r.ret
         THEN Result(r.fs, FALSE, Append(acc.out, Notice(okKind, n)), acc.failed)
         ELSE Result(r.fs, FALSE,
                     IF loud THEN Append(acc.out, Notice("failed_symlink", n))
                             ELSE acc.out,
                     TRUE)
    ELSE acc

\* a cleaner that returns as soon as it has removed the canonical launcher
remove_symlinks_first(f, o, k) ==
    LET a0 == Result(f, FALSE, <<>>, FALSE)
        a1 == IF k >= 1
              THEN RemoveCandidate(a0, symlink_path, OutcomeOf(o, symlink_path),
                                   "removed_symlink", TRUE)
              ELSE a0
    IN IF k >= 2 /\ a1.fs = f
       THEN RemoveCandidate(a1, old_symlink, OutcomeOf(o, old_symlink),
                            "removed_old_symlink", FALSE)
       ELSE a1

\* a cleaner that reports a failure on the legacy alias as well
remove_symlinks_loud(f, o, k) ==
    LET a0 == Result(f, FALSE, <<>>, FALSE)
        a1 == IF k >= 1
              THEN RemoveCandidate(a0, symlink_path, OutcomeOf(o, symlink_path),
                                   "removed_symlink", TRUE)
              ELSE a0
    IN IF k >= 2
       THEN RemoveCandidate(a1, old_symlink, OutcomeOf(o, old_symlink),
                            "removed_old_symlink", TRUE)
       ELSE a1

\* remove_symlinks, cut after its first k candidates (k = 2: the whole function)
remove_symlinks(f, o, k) ==
    LET a0 == Result(f, FALSE, <<>>, FALSE)
        a1 == IF k >= 1
              THEN RemoveCandidate(a0, symlink_path, OutcomeOf(o, symlink_path),
                                   "removed_symlink", TRUE)
              ELSE a0
        a2 == IF k >= 2
              THEN RemoveCandidate(a1, old_symlink, OutcomeOf(o, old_symlink),
                                   "removed_old_symlink", FALSE)
              ELSE a1
    IN a2

remove_user_config(f, inCfg, oc) ==
    LET config_path == ConfigNode(inCfg) IN
    IF Exists(f, config_path)
    THEN LET r == remove_directory(f, config_path, oc) IN
         Result(r.fs, FALSE, <<Notice("found_config", config_path)>> \o r.out, r.failed)
    ELSE Result(f, FALSE, <<Notice("no_config", config_path)>>, FALSE)

\* a root test that also takes the directories to delete for markers
is_project_root_anydir(f) ==
    \/ \E i \in 1..Len(markers) : Exists(f, markers[i])
    \/ \E i \in 1..Len(targets) : Exists(f, targets[i])

is_project_root(f) == \E i \in 1..Len(markers) : Exists(f, markers[i])

\* a pass that looks for the markers again before it touches a directory
TargetStep_recheck(acc, target, oc) ==
    IF is_project_root(acc.fs) /\ Exists(acc.fs, target)
    THEN LET r == remove_directory(acc.fs, target, oc) IN
         Result(r.fs, FALSE, acc.out \o r.out, acc.failed \/ r.failed)
    ELSE acc

\* a pass that gives up once an earlier removal has failed
TargetStep_stop(acc, target, oc) ==
    IF ~acc.failed /\ Exists(acc.fs, target)
    THEN LET r == remove_directory(acc.fs, target, oc) IN
         Result(r.fs, FALSE, acc.out \o r.out, acc.failed \/ r.failed)
    ELSE acc

\* one pass of the directory loop
TargetStep(acc, target, oc) ==
    IF Exists(acc.fs, target)
    THEN LET r == remove_directory(acc.fs, target, oc) IN
         Result(r.fs, FALSE, acc.out \o r.out, acc.failed \/ r.failed)
    ELSE acc

\* one pass of the file loop
FileStep(acc, file, oc) ==
    IF Exists(acc.fs, file) /\ file # Self
    THEN LET r == os_remove(acc.fs, file, oc) IN
         IF r.ret
         THEN Result(r.fs, FALSE, Append(acc.out, Notice("removed_file", file)), acc.failed)
         ELSE Result(r.fs, FALSE, Append(acc.out, Notice("failed_file", file)), TRUE)
    ELSE acc

WorkItems == Len(targets) + Len(files)

RECURSIVE LocalLoop(_, _, _, _)
\* passes i..k of the two loops, the directories first and then the files
LocalLoop(acc, o, i, k) ==
    IF i > k THEN acc
    ELSE IF i <= Len(targets)
         THEN LocalLoop(TargetStep(acc, targets[i], OutcomeOf(o, targets[i])), o, i + 1, k)
         ELSE LocalLoop(FileStep(acc, files[i - Len(targets)],
                                 OutcomeOf(o, files[i - Len(targets)])), o, i + 1, k)

\* remove_local_artifacts in an existing working directory, cut after its
\* first k loop passes (k = WorkItems: the whole function)
remove_local_artifacts(f, o, k) ==
    IF is_project_root(f)
    THEN LET r == LocalLoop(Result(f, FALSE, <<Notice("detected_manual", "W")>>, FALSE),
                            o, 1, k)
         IN IF k = WorkItems
            THEN Result(r.fs, FALSE, Append(r.out, Notice("local_done", "W")), r.failed)
            ELSE r
    ELSE Result(f, FALSE, <<Notice("skip_local", "W")>>, FALSE)

\* Confirm.ask of the fallback console: input(...).lower().startswith("y")
Lower(c) == CASE c = "Y" -> "y" [] c = "N" -> "n" [] c = "E" -> "e" [] c = "S" -> "s"
              [] OTHER -> c

LowerStr(s) == [i \in 1..Len(s) |-> Lower(s[i])]

StartsWith(s, c) == Len(s) >= 1 /\ s[1] = c

\* a prompt that takes any answer containing a y for a yes
Confirm_ask_contains(s) == "y" \in Range(LowerStr(s))

Confirm_ask(s) == StartsWith(LowerStr(s), "y")

-----------------------------------------------------------------------------
(* The package manager, seen from uninstall_pip_package *)

\* what "pip show sentinelx" can answer: exit 0 only for an installed package
ShowOutcomes(p) == IF p THEN {"found", "notfound", "error"} ELSE {"notfound", "error"}

PipResult(p, r, o, c, a, x) ==
    [pkg |-> p, ret |-> r, out |-> o, cmd |-> c, asked |-> a, failed |-> x]

\* a command line that always carries the non-interactive flag
UninstallCmd_always(force) == <<"pip", "uninstall", "sentinelx", "-y">>

\* the uninstall command line built at lines 70-72
UninstallCmd(force) ==
    <<"pip", "uninstall", "sentinelx">> \o (IF force THEN <<"-y">> ELSE <<>>)

\* pip uninstall asks "Proceed (Y/n)?" unless it was given -y
PipPrompts(c) == "-y" \notin Range(c)

\* show: outcome of the query; reply: the operator's answer to pip's own
\* question (read only when pip asks); un: outcome of the uninstall itself
uninstall_pip_package(p, force, show, reply, un) ==
    IF show = "found"
    THEN LET c == UninstallCmd(force)
             a == IF PipPrompts(c) THEN 1 ELSE 0
             proceed == ~PipPrompts(c) \/ reply
         IN IF un = "ok"
            THEN PipResult(IF proceed THEN FALSE ELSE p, TRUE,
                           <<Notice("detected_pip", "pkg"), Notice("pip_ok", "pkg")>>,
                           c, a, ~proceed)
            ELSE PipResult(p, FALSE, <<Notice("detected_pip", "pkg")>>, c, a, TRUE)
    ELSE PipResult(p, FALSE, <<>>, <<>>, 0, p)

-----------------------------------------------------------------------------
(* The process *)

ExitOk == 0

\* an interrupt handler that exits as a normal end does
ExitInterrupt_ok == ExitOk

ExitInterrupt == 1

ExitUncaught == 1

Running == 0 - 1

\* a main that goes from the symlinks straight to the local files
NextPc_skip(step) ==
    CASE step = "pip" -> "symlinks"
      [] step = "symlinks" -> "local"
      [] step = "config" -> "local"
      [] OTHER -> "banner"

\* main, lines 136-148: what follows each step, whatever it returned
NextPc(step) ==
    CASE step = "pip" -> "symlinks"
      [] step = "symlinks" -> "config"
      [] step = "config" -> "local"
      [] OTHER -> "banner"

\* own: the run ended at the banner or on an uncaught error, not by a
\* cancellation or an interrupt; failed: something in it failed;
\* removed: it changed the filesystem or the package state
NoRun == [own |-> FALSE, failed |-> FALSE, removed |-> FALSE]

Terminal == {"done", "cancelled", "aborted", "crashed"}

Answers == {<<"Y", "E", "S">>, <<"n">>, <<>>, <<"n", "y">>}

\* environments: one outcome for each removal the step can attempt
OutcomesFor(f, n) ==
    IF IsDir(f, n) /\ \E m \in Descendants(Resolve(f, n)) : f[m] # "none"
    THEN Outcomes ELSE {"ok", "fail"}

Oracles(f, S) ==
    LET P == {n \in S : Exists(f, n) \/ IsSymlink(f, n)} IN
    {o \in [P -> Outcomes] : \A n \in P : o[n] \in OutcomesFor(f, n)}

\* initial filesystems: W and outside are directories, at most max of the
\* entries Opt are present, each of a kind its place allows
Allowed(n) ==
    CASE n \in {symlink_path, old_symlink} -> {"->outside", "->missing", "dir"}
      [] n = "cfg" -> {"dir", "file"}
      [] n \in Range(targets) -> {"dir", "file", "->W", "->outside"}
      [] n = "setup.py" -> {"file", "dir"}
      [] n = "unrelated_data" -> {"dir"}
      [] OTHER -> {"file"}

Base == [n \in Nodes |-> IF n \in {"W", "outside"} THEN "dir" ELSE "none"]

WellFormed(f) ==
    \A n \in Nodes : Parent(n) # "/" /\ f[n] # "none" => f[Parent(n)] = "dir"

InitFs(Opt, max, inCfg) ==
    {f \in UNION {{[n \in Nodes |-> IF n \in S THEN k[n] ELSE Base[n]] : k \in [S -> Kinds]}
                  : S \in {T \in SUBSET Opt : Cardinality(T) <= max}} :
        /\ \A n \in Opt : f[n] # "none" => f[n] \in Allowed(n)
        /\ WellFormed(f)
        /\ inCfg => f["cfg"] = "none"}

\* entries that vary when the whole program is run
Optional == {symlink_path, old_symlink, "cfg", "logs", "setup.py"}

\* entries of the working directory that vary when one step is run
OptionalLocal == {"logs", "sentinelx", "build", "setup.py", "README.md",
                  "tools.yaml", Self, "unrelated_data"}

\* entries that vary when remove_directory is called directly
OptionalRemove == {"cfg", "logs", "sentinelx", "tools.yaml", "unrelated_data"}

Fresh ==
    /\ run = 1
    /\ exit = Running
    /\ answer = <<>>
    /\ asked = 0
    /\ out = <<>>
    /\ ret = FALSE
    /\ cmd = <<>>
    /\ failed = FALSE
    /\ prevRun = NoRun
    /\ fsStart = fs
    /\ pkgStart = pkg
    /\ env = <<>>
    /\ written = <<>>
    /\ clock = 0

Init ==
    /\ cwdIsConfig \in BOOLEAN
    /\ fs \in InitFs(Optional, MaxPresent, cwdIsConfig)
    /\ pkg \in BOOLEAN
    /\ yes \in BOOLEAN
    /\ pc = "main"
    /\ calls = <<>>
    /\ arg = "-"
    /\ ncalls = 0
    /\ Fresh

\* main, lines 124-134, with the bypass flag: no question is asked
MainBypass ==
    /\ pc = "main" /\ yes
    /\ pc' = "pip"
    /\ out' = <<Notice("starting", "-")>>
    /\ UNCHANGED <<fs, pkg, cwdIsConfig, yes, run, exit, answer, asked, calls,
                   ret, cmd, failed, prevRun, fsStart, pkgStart, arg, ncalls,
                   env, written, clock>>

\* main, lines 124-134, without the flag: the operator answers the prompt
MainAsk ==
    /\ pc = "main" /\ ~yes
    /\ \E a \in Answers :
         /\ answer' = a
         /\ asked' = asked + 1
         /\ IF Confirm_ask(a)
            THEN /\ pc' = "pip"
                 /\ out' = <<Notice("danger", "-"), Notice("starting", "-")>>
                 /\ exit' = exit
            ELSE /\ pc' = "cancelled"
                 /\ out' = <<Notice("danger", "-"), Notice("cancelled", "-")>>
                 /\ exit' = ExitOk
    /\ UNCHANGED <<fs, pkg, cwdIsConfig, yes, run, calls, ret, cmd, failed,
                   prevRun, fsStart, pkgStart, arg, ncalls,
                   env, written, clock>>

UninstallPipPackage ==
    /\ pc = "pip"
    /\ \E show \in ShowOutcomes(pkg), reply \in BOOLEAN, un \in {"ok", "fail"} :
         LET r == uninstall_pip_package(pkg, yes, show, reply, un) IN
         /\ pkg' = r.pkg
         /\ ret' = r.ret
         /\ out' = r.out
         /\ cmd' = r.cmd
         /\ asked' = asked + r.asked
         /\ failed' = (failed \/ r.failed)
         /\ env' = [show |-> show, reply |-> reply, un |-> un]
    /\ calls' = Append(calls, "pip")
    /\ pc' = NextPc("pip")
    /\ UNCHANGED <<fs, cwdIsConfig, yes, run, exit, answer, prevRun, fsStart, pkgStart, arg, ncalls,
                   written, clock>>

RemoveSymlinks ==
    /\ pc = "symlinks"
    /\ \E o \in Oracles(fs, {symlink_path, old_symlink}) :
         LET r == remove_symlinks(fs, o, 2) IN
         /\ fs' = r.fs
         /\ out' = r.out
         /\ failed' = (failed \/ r.failed)
         /\ env' = o
    /\ ret' = FALSE
    /\ calls' = Append(calls, "symlinks")
    /\ pc' = NextPc("symlinks")
    /\ UNCHANGED <<pkg, cwdIsConfig, yes, run, exit, answer, asked, cmd,
                   prevRun, fsStart, pkgStart, arg, ncalls,
                   written, clock>>

RemoveUserConfig ==
    /\ pc = "config"
    /\ \E o \in Oracles(fs, {ConfigNode(cwdIsConfig)}) :
         LET r == remove_user_config(fs, cwdIsConfig,
                                     OutcomeOf(o, ConfigNode(cwdIsConfig))) IN
         /\ fs' = r.fs
         /\ out' = r.out
         /\ failed' = (failed \/ r.failed)
         /\ env' = o
    /\ ret' = FALSE
    /\ calls' = Append(calls, "config")
    /\ pc' = NextPc("config")
    /\ UNCHANGED <<pkg, cwdIsConfig, yes, run, exit, answer, asked, cmd,
                   prevRun, fsStart, pkgStart, arg, ncalls,
                   written, clock>>

\* remove_local_artifacts in a working directory that still exists
RemoveLocalArtifacts ==
    /\ pc = "local" /\ CwdExists(fs)
    /\ \E o \in Oracles(fs, Range(targets) \cup Range(files)) :
         LET r == remove_local_artifacts(fs, o, WorkItems) IN
         /\ fs' = r.fs
         /\ out' = r.out
         /\ failed' = (failed \/ r.failed)
         /\ env' = o
    /\ ret' = FALSE
    /\ calls' = Append(calls, "local")
    /\ pc' = NextPc("local")
    /\ UNCHANGED <<pkg, cwdIsConfig, yes, run, exit, answer, asked, cmd,
                   prevRun, fsStart, pkgStart, arg, ncalls,
                   written, clock>>

\* Path.cwd() at line 91 raises FileNotFoundError when the working directory
\* has been deleted; nothing catches it, the interpreter exits with status 1
RemoveLocalArtifactsRaises ==
    /\ pc = "local" /\ ~CwdExists(fs)
    /\ out' = <<Notice("traceback", "W")>>
    /\ ret' = FALSE
    /\ calls' = Append(calls, "local")
    /\ pc' = "crashed"
    /\ exit' = ExitUncaught
    /\ env' = <<>>
    /\ UNCHANGED <<fs, pkg, cwdIsConfig, yes, run, answer, asked, cmd, failed,
                   prevRun, fsStart, pkgStart, arg, ncalls,
                   written, clock>>

\* main, lines 148-149, and the normal end of the process
Complete ==
    /\ pc = "banner"
    /\ out' = <<Notice("banner", "-")>>
    /\ pc' = "done"
    /\ exit' = ExitOk
    /\ UNCHANGED <<fs, pkg, cwdIsConfig, yes, run, answer, asked, calls, ret,
                   cmd, failed, prevRun, fsStart, pkgStart, arg, ncalls,
                   env, written, clock>>

-----------------------------------------------------------------------------
(* KeyboardInterrupt: no handler below the top level catches it ("except    *)
(* Exception" does not), so the step under way is cut short and lines       *)
(* 154-156 end the process.                                                 *)

Aborted(o) == Append(o, Notice("aborted", "-"))

\* interrupt while the prompt of line 130 waits for the operator
PromptInterrupted ==
    /\ pc = "main" /\ ~yes
    /\ asked' = asked + 1
    /\ out' = Aborted(<<Notice("danger", "-")>>)
    /\ pc' = "aborted"
    /\ exit' = ExitInterrupt
    /\ env' = <<>>
    /\ UNCHANGED <<fs, pkg, cwdIsConfig, yes, run, answer, calls, ret, cmd,
                   failed, prevRun, fsStart, pkgStart, arg, ncalls,
                   written, clock>>

\* interrupt during one of the two package-manager calls; an uninstall under
\* way may or may not have removed the package
PipInterrupted ==
    /\ pc = "pip"
    /\ \E show \in ShowOutcomes(pkg), gone \in BOOLEAN :
         /\ pkg' = IF show = "found" /\ gone THEN FALSE ELSE pkg
         /\ cmd' = IF show = "found" THEN UninstallCmd(yes) ELSE <<>>
         /\ asked' = asked + (IF show = "found" /\ PipPrompts(UninstallCmd(yes))
                              THEN 1 ELSE 0)
         /\ out' = Aborted(IF show = "found" THEN <<Notice("detected_pip", "pkg")>>
                                            ELSE <<>>)
    /\ calls' = Append(calls, "pip")
    /\ pc' = "aborted"
    /\ exit' = ExitInterrupt
    /\ env' = <<>>
    /\ UNCHANGED <<fs, cwdIsConfig, yes, run, answer, ret, failed, prevRun,
                   fsStart, pkgStart, arg, ncalls,
                   written, clock>>

\* interrupt before the first or before the second candidate
SymlinksInterrupted ==
    /\ pc = "symlinks"
    /\ \E k \in 0..1, o \in Oracles(fs, {symlink_path, old_symlink}) :
         LET r == remove_symlinks(fs, o, k) IN
         /\ fs' = r.fs
         /\ out' = Aborted(r.out)
         /\ failed' = (failed \/ r.failed)
    /\ calls' = Append(calls, "symlinks")
    /\ pc' = "aborted"
    /\ exit' = ExitInterrupt
    /\ env' = <<>>
    /\ UNCHANGED <<pkg, cwdIsConfig, yes, run, answer, asked, ret, cmd,
                   prevRun, fsStart, pkgStart, arg, ncalls,
                   written, clock>>

\* interrupt before the deletion of ~/.sentinelx or in the middle of it
ConfigInterrupted ==
    /\ pc = "config"
    /\ LET c == ConfigNode(cwdIsConfig) IN
       /\ fs' \in {fs} \cup (IF IsDir(fs, c) THEN {RmTreePartial(fs, Resolve(fs, c))} ELSE {})
       /\ out' = Aborted(IF Exists(fs, c) THEN <<Notice("found_config", c)>> ELSE <<>>)
    /\ calls' = Append(calls, "config")
    /\ pc' = "aborted"
    /\ exit' = ExitInterrupt
    /\ env' = <<>>
    /\ UNCHANGED <<pkg, cwdIsConfig, yes, run, answer, asked, ret, cmd, failed,
                   prevRun, fsStart, pkgStart, arg, ncalls,
                   written, clock>>

\* interrupt between two passes of the loops of remove_local_artifacts
LocalInterrupted ==
    /\ pc = "local" /\ CwdExists(fs)
    /\ \E k \in 0..(WorkItems - 1), o \in Oracles(fs, Range(targets) \cup Range(files)) :
         LET r == remove_local_artifacts(fs, o, k) IN
         /\ fs' = r.fs
         /\ out' = Aborted(IF is_project_root(fs) THEN r.out ELSE <<>>)
         /\ failed' = (failed \/ r.failed)
    /\ calls' = Append(calls, "local")
    /\ pc' = "aborted"
    /\ exit' = ExitInterrupt
    /\ env' = <<>>
    /\ UNCHANGED <<pkg, cwdIsConfig, yes, run, answer, asked, ret, cmd,
                   prevRun, fsStart, pkgStart, arg, ncalls,
                   written, clock>>

\* the operator starts the program again, in the same working directory and
\* on the filesystem the previous run left
Rerun ==
    /\ pc \in Terminal /\ run < MaxRuns
    /\ run' = run + 1
    /\ yes' \in BOOLEAN
    /\ pc' = "main"
    /\ exit' = Running
    /\ answer' = <<>>
    /\ asked' = 0
    /\ calls' = <<>>
    /\ out' = <<>>
    /\ ret' = FALSE
    /\ cmd' = <<>>
    /\ failed' = FALSE
    /\ prevRun' = [own |-> pc \in {"done", "crashed"}, failed |-> failed,
                    removed |-> (fs # fsStart \/ pkg # pkgStart)]
    /\ fsStart' = fs
    /\ pkgStart' = pkg
    /\ env' = <<>>
    /\ UNCHANGED <<fs, pkg, cwdIsConfig, arg, ncalls,
                   written, clock>>

Next ==
    \/ MainBypass
    \/ MainAsk
    \/ UninstallPipPackage
    \/ RemoveSymlinks
    \/ RemoveUserConfig
    \/ RemoveLocalArtifacts
    \/ RemoveLocalArtifactsRaises
    \/ Complete
    \/ PromptInterrupted
    \/ PipInterrupted
    \/ SymlinksInterrupted
    \/ ConfigInterrupted
    \/ LocalInterrupted
    \/ Rerun

Spec == Init /\ [][Next]_vars

TypeOK ==
    /\ fs \in [Nodes -> Kinds]
    /\ WellFormed(fs)
    /\ pc \in {"main", "pip", "symlinks", "config", "local", "banner", "remove_directory", "reporting"} \cup Terminal
    /\ run \in 1..MaxRuns
    /\ exit \in {Running, ExitOk, ExitInterrupt}

-----------------------------------------------------------------------------
(* remove_local_artifacts on its own: the process has reached line 146 in   *)
(* a working directory holding up to MaxArtifacts entries                   *)

InitLocal ==
    /\ cwdIsConfig = FALSE
    /\ fs \in InitFs(OptionalLocal, MaxArtifacts, FALSE)
    /\ pkg = FALSE
    /\ yes \in BOOLEAN
    /\ pc = "local"
    /\ calls = <<"pip", "symlinks", "config">>
    /\ arg = "-"
    /\ ncalls = 0
    /\ Fresh

NextLocal ==
    \/ RemoveLocalArtifacts
    \/ LocalInterrupted
    \/ Complete

SpecLocal == InitLocal /\ [][NextLocal]_vars

-----------------------------------------------------------------------------
(* remove_directory on its own, called up to MaxCalls times on one path     *)

PathArgs == OptionalRemove \cup {"missing", "outside"}

InitRemove ==
    /\ cwdIsConfig = FALSE
    /\ fs \in InitFs(OptionalRemove, MaxArtifacts, FALSE)
    /\ pkg = FALSE
    /\ yes = TRUE
    /\ pc = "remove_directory"
    /\ calls = <<>>
    /\ arg \in PathArgs
    /\ ncalls = 0
    /\ Fresh

CallRemoveDirectory ==
    /\ pc = "remove_directory" /\ ncalls < MaxCalls
    /\ \E oc \in OutcomesFor(fs, arg) :
         LET r == remove_directory(fs, arg, oc) IN
         /\ fs' = r.fs
         /\ ret' = r.ret
         /\ out' = r.out
         /\ failed' = (failed \/ r.failed)
         /\ env' = [oc |-> oc]
    /\ ncalls' = ncalls + 1
    /\ UNCHANGED <<pkg, cwdIsConfig, yes, pc, run, exit, answer, asked, calls,
                   cmd, prevRun, fsStart, pkgStart, arg,
                   written, clock>>

NextRemove == CallRemoveDirectory

SpecRemove == InitRemove /\ [][NextRemove]_vars

-----------------------------------------------------------------------------
(* The report writers of sentinelx/core/reporting.py, called in the working *)
(* directory.  clock counts half seconds; a report file is named after the  *)
(* second it was asked for in, and written maps each file under reports/    *)
(* to the number of lines it holds.                                         *)

Keys == {"target", "status"}

\* datetime.now().strftime("%Y%m%d_%H%M%S"): the clock cut to the second
Timestamp(c) == c \div 2

ReportName(c, ext) == [prefix |-> "report", ts |-> Timestamp(c), ext |-> ext]

\* generate_filename: creates reports/ when nothing is found at that path
generate_filename(f) == IF Exists(f, "reports") THEN f ELSE [f EXCEPT !["reports"] = "dir"]

\* open(filename, "w") and the writes: the file is created or replaced
WriteFile(w, name, lines) ==
    [n \in DOMAIN w \cup {name} |-> IF n = name THEN lines ELSE w[n]]

ReportResult(f, w, o) == [fs |-> f, written |-> w, out |-> o]

\* data: the keys of the mapping
save_report_md(f, w, c, data) ==
    ReportResult(generate_filename(f),
                 WriteFile(w, ReportName(c, "md"), 3 + Cardinality(data)),
                 <<Notice("report_saved", "reports")>>)

\* rows: the length of data_list, whose records all have the same keys
save_report_csv(f, w, c, rows) ==
    IF rows = 0
    THEN ReportResult(generate_filename(f), w, <<>>)
    ELSE ReportResult(generate_filename(f),
                      WriteFile(w, ReportName(c, "csv"), 1 + rows),
                      <<Notice("csv_saved", "reports")>>)

InitReport ==
    /\ cwdIsConfig = FALSE
    /\ fs \in {Base, [Base EXCEPT !["reports"] = "dir"]}
    /\ pkg = FALSE
    /\ yes = TRUE
    /\ pc = "reporting"
    /\ calls = <<>>
    /\ arg = "-"
    /\ ncalls = 0
    /\ Fresh

SaveReportMd ==
    /\ pc = "reporting"
    /\ \E data \in SUBSET Keys :
         LET r == save_report_md(fs, written, clock, data) IN
         /\ fs' = r.fs
         /\ written' = r.written
         /\ out' = r.out
         /\ env' = [op |-> "md", size |-> Cardinality(data)]
    /\ UNCHANGED <<pkg, cwdIsConfig, yes, pc, run, exit, answer, asked, calls,
                   ret, cmd, failed, prevRun, fsStart, pkgStart, arg, ncalls, clock>>

SaveReportCsv ==
    /\ pc = "reporting"
    /\ \E rows \in 0..MaxRecords :
         LET r == save_report_csv(fs, written, clock, rows) IN
         /\ fs' = r.fs
         /\ written' = r.written
         /\ out' = r.out
         /\ env' = [op |-> "csv", size |-> rows]
    /\ UNCHANGED <<pkg, cwdIsConfig, yes, pc, run, exit, answer, asked, calls,
                   ret, cmd, failed, prevRun, fsStart, pkgStart, arg, ncalls, clock>>

\* half a second passes
Tick ==
    /\ pc = "reporting" /\ clock < MaxClock
    /\ clock' = clock + 1
    /\ env' = [op |-> "tick", size |-> 0]
    /\ out' = <<>>
    /\ UNCHANGED <<fs, pkg, cwdIsConfig, yes, pc, run, exit, answer, asked, calls,
                   ret, cmd, failed, prevRun, fsStart, pkgStart, arg, ncalls, written>>

NextReport ==
    \/ SaveReportMd
    \/ SaveReportCsv
    \/ Tick

SpecReport == InitReport /\ [][NextReport]_vars

-----------------------------------------------------------------------------
(* Properties *)

Banner == <<Notice("banner", "-")>>

\* neither marker file exists under the working directory
NoMarker(f) == ~Exists(f, "setup.py") /\ ~Exists(f, "tools.yaml")

\* C1: once confirmation is granted, a run that no operator interrupt stops
\* ends at the final completion banner: no error of a step leaves the step.
C1_RunEndsAtBanner ==
    pc \in Terminal \ {"cancelled", "aborted"} => pc = "done" /\ out = Banner

\* C2: when no marker file exists under the working directory,
\* remove_local_artifacts leaves every file and directory as it was.
C2_NoMarkerDeletesNothing ==
    [][pc = "local" /\ NoMarker(fs) => fs' = fs]_vars

\* the step has skipped a working directory that holds a logs directory
C2_Witness ==
    /\ pc = "banner"
    /\ out = <<Notice("skip_local", "W")>>
    /\ fs["logs"] = "dir"
    /\ fs["unrelated_data"] = "dir"

\* C3: the file sentinelx_uninstall.py of the working directory still exists
\* when remove_local_artifacts returns, whatever the listed entries are.
C3_SelfSurvives ==
    [][pc = "local" /\ fs[Self] = "file" => fs'[Self] = "file"]_vars


NonAffirmative == {a \in Answers : Len(a) = 0 \/ a[1] \notin {"y", "Y"}}

\* C5: without the bypass flag, an answer that is not affirmative ends the
\* process with the cancellation notice and status 0, before any of the four
\* steps is invoked and with filesystem and package state unchanged.
C5_CancelChangesNothing ==
    /\ ~yes /\ asked >= 1 /\ answer \in NonAffirmative /\ pc \notin {"main", "aborted"}
         => pc = "cancelled"
    /\ pc = "cancelled"
         => /\ exit = 0
            /\ calls = <<>>
            /\ fs = fsStart /\ pkg = pkgStart
            /\ out[Len(out)] = Notice("cancelled", "-")

\* the operator has declined while a configuration directory, a launcher and
\* the package were there to remove
C5_Witness ==
    /\ pc = "cancelled" /\ answer = <<"n", "y">>
    /\ fs["cfg"] = "dir" /\ fs[symlink_path] = "->outside" /\ pkg

Order == <<"pip", "symlinks", "config", "local">>

\* C6: after confirmation the four steps are invoked once each in the order
\* PackageDetector, SymlinkCleaner, ConfigCleaner, ProjectCleaner, one after
\* the return of the other, whatever the earlier ones failed to remove.
C6_FixedOrder ==
    /\ \E k \in 0..Len(Order) : calls = SubSeq(Order, 1, k)
    /\ pc \in {"main", "cancelled"} => calls = <<>>
    /\ \A k \in 1..Len(Order) : pc = Order[k] => calls = SubSeq(Order, 1, k - 1)
    /\ pc \in {"banner", "done", "crashed"} => calls = Order

\* a run has reached the banner although removals failed on its way
C6_Witness == pc = "done" /\ failed /\ calls = Order /\ fs["cfg"] = "dir"

\* p is missing, or is something else than a directory or a link to one
NotDirectory(f, p) ==
    \/ f[p] \in {"none", "file"}
    \/ IsLink(f[p]) /\ f[LinkTarget(f[p])] # "dir"

\* C7: on a path that does not exist or is not a directory, remove_directory
\* returns False, reports no error and leaves the filesystem unchanged, at
\* every repetition of the call.
C7_AbsentOrNotDirectory ==
    [][NotDirectory(fs, arg) => ret' = FALSE /\ fs' = fs /\ out' = <<>> /\ failed' = failed]_vars

\* the call has been repeated on a regular file next to a real directory
C7_Witness ==
    /\ ncalls >= 2 /\ fs[arg] = "file" /\ ret = FALSE
    /\ \E n \in Nodes \ {"W", "outside"} : fs[n] = "dir"

\* entries of the working directory that are in neither fixed list
Unlisted == Children("W") \ (Range(targets) \cup Range(files))

\* C8: with a marker present and the bypass flag set, remove_local_artifacts
\* removes every existing directory of the target list (those whose removal
\* did not fail) and leaves every entry that is in neither list untouched.
C8_OnlyListedRemoved ==
    [][pc = "local" /\ pc' = "banner" /\ yes /\ ~NoMarker(fs) =>
          /\ \A i \in 1..Len(targets) :
                fs[targets[i]] = "dir" /\ ~failed' => fs'[targets[i]] = "none"
          /\ \A n \in Unlisted : fs'[n] = fs[n]]_vars

\* C9: the operator is asked to confirm at most once in a run, never with the
\* bypass flag, and no step asks again after the confirmation was granted.
C9_SingleGate == asked <= 1 /\ (yes => asked = 0)

\* C10: the exit status is 0 exactly at the final banner or at a
\* cancellation, and 1 at an operator interrupt; after an interrupt no step
\* runs, and what was removed before the interrupt stays removed.
C10_ExitStatus ==
    [][/\ (exit' = 0) = (pc' \in {"done", "cancelled"})
       /\ pc' = "aborted" => exit' = 1
       /\ pc' = "aborted" /\ run' = run =>
             /\ \A n \in Nodes : fs[n] = "none" => fs'[n] = "none"
             /\ ~pkg => ~pkg'
       /\ pc = "aborted" /\ run' = run =>
             fs' = fs /\ pkg' = pkg /\ calls' = calls]_vars

\* an interrupt has ended a run that had already removed something
C10_Witness ==
    /\ pc = "aborted" /\ exit = 1
    /\ \E n \in Nodes : fsStart[n] # "none" /\ fs[n] = "none"
    /\ Len(calls) >= 3

\* C11: the steps are independent: what a step finds at the paths it is
\* responsible for is what was there when the run started, whatever the
\* earlier steps did.
C11_StepsIndependent ==
    /\ pc = "config" =>
          fs[ConfigNode(cwdIsConfig)] = fsStart[ConfigNode(cwdIsConfig)]
    /\ pc = "local" =>
          \A n \in {"W"} \cup WorkEntries : fs[n] = fsStart[n]

\* C12: uninstall_pip_package runs the uninstall command only after the show
\* query exited 0, gives it -y exactly when force is set, and returns True
\* exactly when both the query and the uninstall exited 0; every other
\* outcome, an exception included, gives False and the step still returns.
C12_PipContract ==
    pc = "symlinks" =>
       /\ (cmd # <<>>) = (env.show = "found")
       /\ cmd # <<>> =>
             /\ SubSeq(cmd, 1, 3) = <<"pip", "uninstall", "sentinelx">>
             /\ ("-y" \in Range(cmd)) = yes
       /\ ret = (env.show = "found" /\ env.un = "ok")
       /\ calls = <<"pip">>

\* the uninstall has run without -y and succeeded for an installed package
C12_Witness ==
    /\ pc = "symlinks" /\ ret /\ ~yes /\ pkgStart
    /\ cmd = <<"pip", "uninstall", "sentinelx">>

\* the step printed a notice of this kind about this node
Printed(o, kind, n) == \E i \in 1..Len(o) : o[i] = Notice(kind, n)

\* C13: the root test is made once: when the step itself deletes the marker
\* (the sentinelx directory holding tools.yaml, or setup.py), every listed
\* directory and every listed file is still taken up for removal.
C13_MarkerCheckedOnce ==
    [][pc = "local" /\ pc' = "banner" /\ ~NoMarker(fs) /\ NoMarker(fs') =>
          /\ \A i \in 1..Len(targets) :
                fs[targets[i]] = "dir" =>
                   fs'[targets[i]] = "none" \/ Printed(out', "failed_dir", targets[i])
          /\ \A j \in 1..Len(files) :
                files[j] # Self /\ fs[files[j]] = "file" =>
                   fs'[files[j]] = "none" \/ Printed(out', "failed_file", files[j])]_vars

\* the only marker was inside sentinelx, and build, which comes after
\* sentinelx in the list, has been removed all the same
C13_Witness ==
    /\ pc = "banner"
    /\ fsStart["tools.yaml"] = "file" /\ fsStart["setup.py"] = "none"
    /\ fsStart["build"] = "dir" /\ fsStart["logs"] = "none"
    /\ Printed(out, "removed_dir", "sentinelx") /\ Printed(out, "removed_dir", "build")
    /\ fs["build"] = "none"

\* the two fixed lists in the order the claim gives: directories, then files
Listed == <<"logs", "reports", "sentinelx", "sentinelx.egg-info", "build", "dist",
            "__pycache__", "assets", "setup.py", "requirements.txt",
            "sentinelx_uninstall.py", "README.md", "sentinelx.py">>

ListedIndex(n) == CHOOSE i \in 1..Len(Listed) : Listed[i] = n

\* the listed entry is a directory of the directory list or a file of the
\* file list, the script itself left out
Removable(f, i) ==
    IF i <= 8 THEN f[Listed[i]] = "dir"
    ELSE Listed[i] # Self /\ f[Listed[i]] = "file"

Reported(o, i) ==
    Printed(o, IF i <= 8 THEN "failed_dir" ELSE "failed_file", Listed[i])

\* C14: with a marker present the listed directories are processed in list
\* order and then the listed files in list order; a removal that fails is
\* reported and every later directory and file is still attempted.
C14_OrderAndContinue ==
    [][pc = "local" /\ ~NoMarker(fs) =>
          /\ \A a, b \in 1..Len(out') :
                a < b /\ out'[a].node \in Range(Listed) /\ out'[b].node \in Range(Listed)
                   => ListedIndex(out'[a].node) < ListedIndex(out'[b].node)
          /\ pc' = "banner" =>
                \A i \in 1..Len(Listed) :
                   Removable(fs, i) /\ fs'[Listed[i]] # "none" =>
                      /\ Reported(out', i)
                      /\ \A j \in (i + 1)..Len(Listed) :
                            Removable(fs, j) =>
                               fs'[Listed[j]] = "none" \/ Reported(out', j)]_vars

\* the removal of logs failed, and build and setup.py were removed after it
C14_Witness ==
    /\ pc = "banner"
    /\ Printed(out, "failed_dir", "logs") /\ fs["logs"] = "dir"
    /\ Printed(out, "removed_dir", "build")
    /\ Printed(out, "removed_file", "setup.py")

Candidates == {"sentinelX", "sentinelx_bin"}

\* C15: remove_symlinks attempts the removal of each of the two candidates
\* that exists or is a dangling link, and of no other path; the legacy alias
\* is handled whether or not the canonical one could be removed, no failure
\* raises, and a failure on the legacy alias prints nothing.
C15_SymlinkCleaner ==
    [][pc = "symlinks" /\ pc' # "aborted" =>
          /\ pc' = "config"
          /\ \A n \in Nodes \ Candidates : fs'[n] = fs[n]
          /\ \A c \in Candidates :
                /\ fs[c] \in Links /\ env'[c] = "ok" => fs'[c] = "none"
                /\ fs[c] = "none" => fs'[c] = "none"
          /\ fs'["sentinelX"] # "none" => Printed(out', "failed_symlink", "sentinelX")
          /\ fs["sentinelX"] \in Links /\ fs'["sentinelX"] = "none"
                => Printed(out', "removed_symlink", "sentinelX")
          /\ fs'["sentinelx_bin"] # "none" =>
                \A i \in 1..Len(out') : out'[i].node # "sentinelx_bin"]_vars

\* the canonical launcher could not be removed and the dangling legacy alias
\* was removed after it
C15_Witness ==
    /\ pc = "config" /\ calls = <<"pip", "symlinks">>
    /\ fs["sentinelX"] = "->outside" /\ Printed(out, "failed_symlink", "sentinelX")
    /\ fsStart["sentinelx_bin"] = "->missing" /\ fs["sentinelx_bin"] = "none"

\* nothing is found at p any more: p is absent or a link that leads nowhere
PathGone(f, p) ==
    \/ f[p] = "none"
    \/ IsLink(f[p]) /\ f[LinkTarget(f[p])] = "none"

\* C16: remove_directory returns True exactly when the path was an existing
\* directory and its recursive deletion succeeded, and the path is then gone;
\* a deletion that fails prints a failure notice and returns False.
C16_RemoveDirectoryResult ==
    [][ncalls' = ncalls + 1 =>
          /\ ret' = (~NotDirectory(fs, arg) /\ env'.oc = "ok")
          /\ ret' => PathGone(fs', arg)
          /\ ~NotDirectory(fs, arg) /\ env'.oc # "ok" =>
                /\ \E i \in 1..Len(out') : out'[i].kind = "failed_dir"
                /\ ~ret']_vars

\* a directory has been deleted by the call, which returned True
C16_Witness ==
    /\ ncalls >= 1 /\ ret /\ env.oc = "ok"
    /\ fsStart[arg] = "dir" /\ fs[arg] = "none"

\* C17: each report-writing operation, save_report_csv of the empty sequence
\* included, leaves a reports directory, writes one file named with the
\* timestamp under it, and prints a confirmation notice.
C17_ReportWritten ==
    [][env'.op \in {"md", "csv"} =>
          /\ fs'["reports"] = "dir"
          /\ [prefix |-> "report", ts |-> clock \div 2, ext |-> env'.op] \in DOMAIN written'
          /\ Len(out') = 1 /\ out'[1].kind \in {"report_saved", "csv_saved"}]_vars

\* C18: remove_local_artifacts deletes nothing but working-directory entries
\* named in the fixed lists and what lies below them, also when a listed
\* entry is a symbolic link to a directory elsewhere or to the working
\* directory itself.
C18_NothingOutsideLists ==
    [][pc = "local" =>
          \A n \in Nodes :
             fs'[n] # fs[n] => n \in Range(Listed) \cup {"tools.yaml"}]_vars

\* C19: with a marker present and no removal attempt failing, none of the
\* eight listed directory names and none of the listed file names other than
\* sentinelx_uninstall.py exists after remove_local_artifacts, whatever kind
\* of entry each was before.
C19_ListedNamesGone ==
    [][pc = "local" /\ pc' = "banner" /\ ~NoMarker(fs) /\ ~failed' =>
          \A i \in 1..Len(Listed) :
             Listed[i] # "sentinelx_uninstall.py" => PathGone(fs', Listed[i])]_vars

\* C20: when ~/.sentinelx exists and remove_user_config prints the detection
\* notice and no failure notice, the path is gone when the step returns,
\* whether it was a directory or a regular file.
C20_ConfigGone ==
    [][/\ pc = "config" /\ pc' = "local"
       /\ ~PathGone(fs, ConfigNode(cwdIsConfig))
       /\ \E i \in 1..Len(out') : out'[i].kind = "found_config"
       /\ \A i \in 1..Len(out') : out'[i].kind # "failed_dir"
       => PathGone(fs', ConfigNode(cwdIsConfig))]_vars

====
